---------------------------- MODULE Spec2Model ----------------------------
(***************************************************************************)
(* The refresh pipeline of stayrtr (cmd/stayrtr/stayrtr.go): the startup   *)
(* sequence of run(), the refresh loop routineUpdate, updateFile,          *)
(* updateSlurm, updateFromNewState, processData and the JSON exporter.     *)
(*                                                                         *)
(* The packages lib (rtr.Server), prefixfile (VRPJson, SlurmConfig) and    *)
(* utils (FetchConfig) are not part of the sources at hand; what the       *)
(* pipeline calls in them is modelled from the specification.              *)
(***************************************************************************)
EXTENDS Integers, Sequences, FiniteSets, TLC

VARIABLES
    cfg,        \* the flags: checktime, sendNotifs, slurm, slurmRefresh
    now,        \* time.Now(), in hours
    pc,         \* where run() / routineUpdate / updateFromNewState stands
    phase,      \* "startup" (run) or "loop" (routineUpdate): updateFromNewState's caller
    lastdata,   \* state.lastdata
    lasthash,   \* state.lasthash
    lastchange, \* state.lastchange
    slurm,      \* state.slurm
    server,     \* rtr.Server: the installed set and its serial
    exported,   \* state.exported
    lockJson,   \* state.lockJson
    metrics,    \* the gauges UpdateMetrics sets
    cyc,        \* the locals and outcomes of the cycle (or startup) under way
    local,      \* updateFromNewState's locals vrpsjson, vrps and the counts
    delay,      \* routineUpdate's timer, in seconds (0: none)
    signals,    \* routineUpdate's signals channel (capacity 1): signals queued
    listening,  \* the RTR listeners have been launched
    epc,        \* where the exporter handler stands
    toExport,   \* exporter's local toExport
    lastInstall,\* history: the latest server.AddVRPs call, its list, build time and effect
    pdIn,       \* processData: the argument vrplistjson
    pdOut,      \* processData: the returned (vrplist, count, countv4, countv6)
    pdDone,     \* processData has returned
    sshIn,      \* PublicKeyCallback: bypass, the authorized keys text, the key
    sshOut,     \* PublicKeyCallback: the returned (*ssh.Permissions, error)
    sshDone,    \* PublicKeyCallback has returned
    clients     \* RTR clients the listeners have accepted

pdvars == <<pdIn, pdOut, pdDone>>

sshvars == <<sshIn, sshOut, sshDone>>

statevars == <<lastdata, lasthash, lastchange, slurm>>

refreshvars ==
    <<cfg, pc, phase, lastdata, lasthash, lastchange, slurm, server, exported,
      lockJson, metrics, cyc, local, delay, listening>>

exportervars == <<epc, toExport>>

vars ==
    <<cfg, now, pc, phase, lastdata, lasthash, lastchange, slurm, server, exported,
      lockJson, metrics, cyc, local, delay, signals, listening, epc, toExport,
      lastInstall, pdIn, pdOut, pdDone, sshIn, sshOut, sshDone, clients>>

(***************************************************************************)
(* Bounds of the model.                                                    *)
(***************************************************************************)
MaxLen == 3     \* longest list handed to processData on its own

(***************************************************************************)
(* Sequences helpers.                                                      *)
(***************************************************************************)
SeqsUpTo(S, n) == UNION {[1..k -> S] : k \in 0..n}

Range(s) == {s[i] : i \in 1..Len(s)}

(***************************************************************************)
(* prefixfile.VRPJson: Prefix is a text, ASN an interface{} holding a      *)
(* string ("AS1") or a number (1), Length a uint8.                         *)
(*   Prefix text  [form, addr, ones]: form "v4"/"v6" is an address of that *)
(*                family followed by /ones; form "bad" is no CIDR text.    *)
(*   ASN          [form, val]: "asstring" is the text "AS<val>", "number"  *)
(*                the JSON number val, "garbage" a string with no number.  *)
(***************************************************************************)
FamilyBits(form) == IF form = "v4" THEN 32 ELSE 128

PrefixText(form, addr, ones) == [form |-> form, addr |-> addr, ones |-> ones]

AsnText(form, val) == [form |-> form, val |-> val]

VRPJson(prefix, asn, length) == [Prefix |-> prefix, ASN |-> asn, Length |-> length]

\* GetPrefix2: the text parsed as a CIDR prefix, or an error.
GetPrefix2(v) ==
    IF v.Prefix.form \notin {"v4", "v6"} \/ v.Prefix.ones > FamilyBits(v.Prefix.form)
    THEN [err |-> TRUE, fam |-> "none", ip |-> "none", ones |-> 0, bits |-> 0]
    ELSE [err |-> FALSE, fam |-> v.Prefix.form, ip |-> v.Prefix.addr,
          ones |-> v.Prefix.ones, bits |-> FamilyBits(v.Prefix.form)]

\* GetASN2: "AS"-prefixed or plain numeric, or an error.
GetASN2(v) ==
    IF v.ASN.form \in {"asstring", "number"}
    THEN [err |-> FALSE, asn |-> v.ASN.val]
    ELSE [err |-> TRUE, asn |-> 0]

\* net.IP.To4() != nil on the prefix's address.
IsV4(prefix) == prefix.fam = "v4"

\* A variant that never compares maxLength with the family's width.
isValidPrefixLengthNoWidthCheck(prefix, maxLength) ==
    ~(prefix.ones = 0 \/ prefix.ones > maxLength)

isValidPrefixLength(prefix, maxLength) ==
    LET plen == prefix.ones
        max  == prefix.bits
    IN  ~(plen = 0 \/ plen > maxLength \/ maxLength > max)

\* A variant whose key leaves the max length out.
DedupKeyNoLength(prefix, asn, length) == <<prefix.fam, prefix.ip, prefix.ones, asn>>

\* fmt.Sprintf("%s,%d,%d", prefix, asn, v.Length)
DedupKey(prefix, asn, length) == <<prefix.fam, prefix.ip, prefix.ones, asn, length>>

RtrVRP(prefix, asn, length) ==
    [Prefix |-> [fam |-> prefix.fam, ip |-> prefix.ip, ones |-> prefix.ones,
                 bits |-> prefix.bits],
     ASN |-> asn, MaxLen |-> length]

\* A variant that counts an entry only when it is not a duplicate.
processEntryCountUnique(acc, v) ==
    LET p == GetPrefix2(v)
        a == GetASN2(v)
        key == DedupKey(p, a.asn, v.Length)
    IN  IF p.err THEN acc
        ELSE IF a.err THEN acc
        ELSE IF ~isValidPrefixLength(p, v.Length) THEN acc
        ELSE IF key \in acc.filterDuplicates THEN acc
        ELSE [acc EXCEPT
                 !.countv4 = IF IsV4(p) THEN @ + 1 ELSE @,
                 !.countv6 = IF IsV4(p) THEN @ ELSE @ + 1,
                 !.filterDuplicates = @ \cup {key},
                 !.vrplist = Append(@, RtrVRP(p, a.asn, v.Length))]

\* One iteration of processData's loop over the entry v.
processEntry(acc, v) ==
    LET p == GetPrefix2(v)
        a == GetASN2(v)
        key == DedupKey(p, a.asn, v.Length)
    IN  IF p.err THEN acc
        ELSE IF a.err THEN acc
        ELSE IF ~isValidPrefixLength(p, v.Length) THEN acc
        ELSE LET counted == [acc EXCEPT
                                !.countv4 = IF IsV4(p) THEN @ + 1 ELSE @,
                                !.countv6 = IF IsV4(p) THEN @ ELSE @ + 1]
             IN  IF key \in acc.filterDuplicates THEN counted
                 ELSE [counted EXCEPT
                          !.filterDuplicates = @ \cup {key},
                          !.vrplist = Append(@, RtrVRP(p, a.asn, v.Length))]

\* The loop from the i-th entry on.  (Each iteration's result is bound as a
\* value before the next one starts.)
RECURSIVE processLoop(_, _, _)
processLoop(list, i, acc) ==
    IF i > Len(list) THEN acc
    ELSE CHOOSE r \in {processLoop(list, i + 1, next) :
                            next \in {processEntry(acc, list[i])}} : TRUE

processData(vrplistjson) ==
    LET r == processLoop(vrplistjson, 1,
                 [filterDuplicates |-> {}, vrplist |-> <<>>,
                  countv4 |-> 0, countv6 |-> 0])
    IN  [vrplist |-> r.vrplist, count |-> r.countv4 + r.countv6,
         countv4 |-> r.countv4, countv6 |-> r.countv6]

(***************************************************************************)
(* Entries the model draws documents from.                                 *)
(***************************************************************************)
P4 == PrefixText("v4", "10.0.0.0", 24)
P6 == PrefixText("v6", "2001:db8::", 32)

E_a1    == VRPJson(P4, AsnText("asstring", 1), 24)      \* 10.0.0.0/24, "AS1", 24
E_a1num == VRPJson(P4, AsnText("number", 1), 24)        \* the same, asn written 1
E_a1x25 == VRPJson(P4, AsnText("asstring", 1), 25)      \* 10.0.0.0/24, AS1, 25
E_b2    == VRPJson(P6, AsnText("number", 2), 48)        \* 2001:db8::/32, 2, 48
E_short == VRPJson(P4, AsnText("number", 1), 23)        \* max length below /24
E_wide  == VRPJson(P4, AsnText("number", 1), 33)        \* max length above 32
E_wide6 == VRPJson(P6, AsnText("number", 2), 129)       \* max length above 128
E_zero  == VRPJson(PrefixText("v4", "0.0.0.0", 0), AsnText("number", 1), 24)
E_badp  == VRPJson(PrefixText("bad", "10.0.0.0", 24), AsnText("number", 1), 24)
E_bada  == VRPJson(P4, AsnText("garbage", 0), 24)

PDEntries ==
    {E_a1, E_a1num, E_a1x25, E_b2, E_short, E_wide, E_wide6, E_zero, E_badp, E_bada}

NoOutput == [vrplist |-> <<>>, count |-> 0, countv4 |-> 0, countv6 |-> 0]

(***************************************************************************)
(* Time.  time.Time values are hours; the zero time.Time is ZeroTime and   *)
(* the clock starts after it.  Buildtime is a text: "ts" is an RFC3339     *)
(* text of the hour t, anything else does not parse.                       *)
(***************************************************************************)
ZeroTime == 0

StaleHours == 24                    \* time.Hour * 24

ClockStep == StaleHours \div 2      \* the clock advances half a day at a time

StartNow == StaleHours

MaxTicks == 1                       \* ticks of the clock the model follows

InitialSyncSeconds == 30            \* time.Duration(30) * time.Second

RefreshInterval == 600              \* flag "refresh"

BuildtimeText(txt, t) == [txt |-> txt, t |-> t]

\* time.Parse(time.RFC3339, text)
ParseRFC3339(text) ==
    IF text.txt = "ts" THEN [err |-> FALSE, t |-> text.t] ELSE [err |-> TRUE, t |-> ZeroTime]

(***************************************************************************)
(* prefixfile.VRPList, and the bodies the upstream serves.  A nil slice    *)
(* and an empty one differ: Data is [isnil, list].                         *)
(***************************************************************************)
NilData == [isnil |-> TRUE, list |-> <<>>]

DataOf(list) == [isnil |-> FALSE, list |-> list]

VRPList(counts, buildtime, data) ==
    [Metadata |-> [Counts |-> counts, Buildtime |-> buildtime], Data |-> data]

\* prefixfile.VRPList{}: what state.lastdata and state.exported start as.
EmptyVRPList == VRPList(0, BuildtimeText("", ZeroTime), NilData)

Body(bytes, wellformed, doc) == [bytes |-> bytes, wellformed |-> wellformed, doc |-> doc]

\* built at hour 0, with a duplicate written in the other ASN form
BodyOld == Body("old", TRUE,
                VRPList(3, BuildtimeText("ts", 0), DataOf(<<E_a1, E_a1num, E_b2>>)))

\* built at StartNow, with an entry that fails validation
BodyNew == Body("new", TRUE,
                VRPList(3, BuildtimeText("ts", StartNow), DataOf(<<E_a1, E_a1x25, E_wide>>)))

\* a buildtime that is no RFC3339 text
BodyJunkTime == Body("junktime", TRUE,
                     VRPList(1, BuildtimeText("junk", ZeroTime), DataOf(<<E_b2>>)))

\* the JSON document {}: no "roas" list, no build time
BodyNoRoas == Body("noroas", TRUE, EmptyVRPList)

\* not JSON
BodyMalformed == Body("malformed", FALSE, EmptyVRPList)

Bodies == {BodyOld, BodyNew, BodyJunkTime, BodyNoRoas, BodyMalformed}

NoBody == Body("", FALSE, EmptyVRPList)

\* newSHA256: distinct bodies have distinct sums.
newSHA256(data) == <<"sha256", data.bytes>>

NoHash == <<"nil", "">>

\* decodeJSON
decodeJSON(data) ==
    IF data.wellformed THEN [err |-> FALSE, v |-> data.doc]
    ELSE [err |-> TRUE, v |-> EmptyVRPList]

(***************************************************************************)
(* utils.FetchConfig.FetchFile: a body, or an error (HttpNotModified,      *)
(* IdenticalEtag, or any other failure of the request).                    *)
(***************************************************************************)
FetchErrors == {"HttpNotModified", "IdenticalEtag", "HttpError"}

Fetched(body) == [err |-> "none", data |-> body]

FetchFailed(e) == [err |-> e, data |-> NoBody]

FetchOutcomes(bodies) == {Fetched(b) : b \in bodies} \cup {FetchFailed(e) : e \in FetchErrors}

(***************************************************************************)
(* prefixfile.SlurmConfig: prefix filters and prefix assertions.           *)
(***************************************************************************)
SlurmFilter(hasPrefix, prefix, hasAsn, asn) ==
    [hasPrefix |-> hasPrefix, prefix |-> prefix, hasAsn |-> hasAsn, asn |-> asn]

SlurmConfig(filters, assertions) ==
    [loaded |-> TRUE, filters |-> filters, assertions |-> assertions]

NoSlurm == [loaded |-> FALSE, filters |-> {}, assertions |-> <<>>]

\* filters every VRP of AS1, and asserts one of AS1
SlurmDropAS1 == SlurmConfig({SlurmFilter(FALSE, P4, TRUE, 1)}, <<E_a1x25>>)

\* filters the IPv6 prefix, asserts nothing
SlurmDropV6 == SlurmConfig({SlurmFilter(TRUE, P6, FALSE, 0)}, <<>>)

SlurmBody(bytes, wellformed, config) ==
    [bytes |-> bytes, wellformed |-> wellformed, config |-> config]

SlurmBodies ==
    {SlurmBody("dropas1", TRUE, SlurmDropAS1),
     SlurmBody("dropv6", TRUE, SlurmDropV6),
     SlurmBody("malformed", FALSE, NoSlurm)}

\* prefixfile.DecodeJSONSlurm
DecodeJSONSlurm(data) ==
    IF data.wellformed THEN [err |-> FALSE, v |-> data.config]
    ELSE [err |-> TRUE, v |-> NoSlurm]

\* A filter matches a VRP by prefix, by ASN, or by both when it names both.
FilterMatches(f, v) ==
    LET p == GetPrefix2(v)
        a == GetASN2(v)
        fp == GetPrefix2([Prefix |-> f.prefix])
    IN  /\ f.hasPrefix =>
              ~p.err /\ p.fam = fp.fam /\ p.ip = fp.ip /\ p.ones >= fp.ones
        /\ f.hasAsn => ~a.err /\ a.asn = f.asn

Filtered(s, v) == \E f \in s.filters : FilterMatches(f, v)

\* SlurmConfig.FilterOnVRPs: (kept, removed), each in the order of the input.
FilterOnVRPs(s, vrps) ==
    [kept    |-> SelectSeq(vrps, LAMBDA v : ~Filtered(s, v)),
     removed |-> SelectSeq(vrps, LAMBDA v : Filtered(s, v))]

\* SlurmConfig.AssertVRPs
AssertVRPs(s) == s.assertions

(***************************************************************************)
(* rtr.Server, as far as the pipeline uses it: the installed set, its      *)
(* serial (counted modulo MaxSerial + 1 here) and the broadcast.           *)
(***************************************************************************)
MaxSerial == 1

NewServer == [vrps |-> {}, serial |-> 0, hasData |-> FALSE]

\* Server.AddVRPs: replaces the set; a no-op when the set is the current one.
AddVRPs(srv, vrps) ==
    LET new == Range(vrps)
    IN  IF new = srv.vrps THEN srv
        ELSE [vrps |-> new,
              serial |-> IF srv.hasData THEN (srv.serial + 1) % (MaxSerial + 1) ELSE 0,
              hasData |-> TRUE]

(***************************************************************************)
(* state.updateFile, as a function of the refresh memo (lasthash,          *)
(* lastdata, lastchange), of what FetchFile returned and of the time.      *)
(* (state.lastts and the request gauges it feeds are left out: nothing     *)
(* the pipeline decides reads them.)                                       *)
(***************************************************************************)
Memo(hash, data, change) == [lasthash |-> hash, lastdata |-> data, lastchange |-> change]

UpdateResult(ok, err, memo) == [ok |-> ok, err |-> err, memo |-> memo]

\* A variant that remembers the hash before the body is decoded.
updateFileHashFirst(memo, fetch, t) ==
    IF fetch.err # "none" THEN UpdateResult(FALSE, fetch.err, memo)
    ELSE IF memo.lasthash # NoHash /\ memo.lasthash = newSHA256(fetch.data)
    THEN UpdateResult(FALSE, "IdenticalFile", memo)
    ELSE IF decodeJSON(fetch.data).err
    THEN UpdateResult(FALSE, "DecodeError", [memo EXCEPT !.lasthash = newSHA256(fetch.data)])
    ELSE UpdateResult(TRUE, "none",
                      Memo(newSHA256(fetch.data), decodeJSON(fetch.data).v, t))

updateFile(memo, fetch, t) ==
    IF fetch.err # "none" THEN UpdateResult(FALSE, fetch.err, memo)
    ELSE LET hsum == newSHA256(fetch.data)
         IN  IF memo.lasthash # NoHash /\ memo.lasthash = hsum
             THEN UpdateResult(FALSE, "IdenticalFile", memo)
             ELSE LET vrplistjson == decodeJSON(fetch.data)
                  IN  IF vrplistjson.err
                      THEN UpdateResult(FALSE, "DecodeError", memo)
                      ELSE UpdateResult(TRUE, "none", Memo(hsum, vrplistjson.v, t))

\* A variant that drops the policy when the refresh fails.
updateSlurmDropOnError(cur, fetch) ==
    IF fetch.err # "none" THEN [ok |-> FALSE, err |-> fetch.err, slurm |-> NoSlurm]
    ELSE LET dec == DecodeJSONSlurm(fetch.data)
         IN  IF dec.err THEN [ok |-> FALSE, err |-> "DecodeError", slurm |-> NoSlurm]
             ELSE [ok |-> TRUE, err |-> "none", slurm |-> dec.v]

\* state.updateSlurm, as a function of state.slurm and of what FetchFile returned.
updateSlurm(cur, fetch) ==
    IF fetch.err # "none" THEN [ok |-> FALSE, err |-> fetch.err, slurm |-> cur]
    ELSE LET dec == DecodeJSONSlurm(fetch.data)
         IN  IF dec.err THEN [ok |-> FALSE, err |-> "DecodeError", slurm |-> cur]
             ELSE [ok |-> TRUE, err |-> "none", slurm |-> dec.v]

(***************************************************************************)
(* state.updateFromNewState, up to the install.                            *)
(***************************************************************************)
\* A variant that compares against the build time itself, not build time + 24h.
checkBuildtimeNoGrace(checktime, doc, t) ==
    IF ~checktime THEN "none"
    ELSE IF ParseRFC3339(doc.Metadata.Buildtime).err THEN "ParseError"
    ELSE IF t > ParseRFC3339(doc.Metadata.Buildtime).t THEN "Stale"
    ELSE "none"

\* The checktime block: the error it returns, or "none".
checkBuildtime(checktime, doc, t) ==
    IF ~checktime THEN "none"
    ELSE LET buildtime == ParseRFC3339(doc.Metadata.Buildtime)
         IN  IF buildtime.err THEN "ParseError"
             ELSE LET notafter == buildtime.t + StaleHours
                  IN  IF t > notafter THEN "Stale" ELSE "none"

\* A variant that puts the assertions through the filters too.
applySlurmFilterAll(s, vrpsjson) ==
    IF s.loaded
    THEN DataOf(FilterOnVRPs(s, vrpsjson.list \o AssertVRPs(s)).kept)
    ELSE vrpsjson

\* The SLURM block: vrpsjson = append(kept, asserted...) when a policy is loaded.
applySlurm(s, vrpsjson) ==
    IF s.loaded
    THEN LET f == FilterOnVRPs(s, vrpsjson.list)
             asserted == AssertVRPs(s)
         IN  DataOf(f.kept \o asserted)
    ELSE vrpsjson

(***************************************************************************)
(* run(): the SSH listener's PublicKeyCallback.  Strings are sequences of  *)
(* character codes; a key is its Type() text and its Marshal() bytes.      *)
(***************************************************************************)
MaxKeyLines == 2    \* most lines of the authorized keys text

\* strings.Split(s, "\n"): the lines of s, at least one.
RECURSIVE SplitFrom(_, _, _)
SplitFrom(s, i, cur) ==
    IF i > Len(s) THEN <<cur>>
    ELSE IF s[i] = 10 THEN <<cur>> \o SplitFrom(s, i + 1, <<>>)
         ELSE SplitFrom(s, i + 1, Append(cur, s[i]))

SplitLines(s) == SplitFrom(s, 1, <<>>)

\* A variant that wants the whole line to be the prefix.
HasPrefixWholeLine(s, prefix) == s = prefix

\* strings.HasPrefix
HasPrefix(s, prefix) ==
    Len(s) >= Len(prefix) /\ SubSeq(s, 1, Len(prefix)) = prefix

\* The j-th bit of the bytes, most significant first; zero past their end.
BitAt(bytes, j) ==
    IF j > 8 * Len(bytes) THEN 0
    ELSE (bytes[((j - 1) \div 8) + 1] \div (2 ^ (7 - ((j - 1) % 8)))) % 2

\* The k-th group of six bits.
Sextet(bytes, k) ==
    LET b(i) == BitAt(bytes, 6 * (k - 1) + i)
    IN  32 * b(1) + 16 * b(2) + 8 * b(3) + 4 * b(4) + 2 * b(5) + b(6)

\* The standard base64 alphabet: A-Z, a-z, 0-9, + and /.
StdAlphabet(v) ==
    IF v < 26 THEN 65 + v
    ELSE IF v < 52 THEN 97 + (v - 26)
    ELSE IF v < 62 THEN 48 + (v - 52)
    ELSE IF v = 62 THEN 43 ELSE 47

\* base64.RawStdEncoding.EncodeToString: no padding.
RawStdEncoding(bytes) ==
    [k \in 1..((8 * Len(bytes) + 5) \div 6) |-> StdAlphabet(Sextet(bytes, k))]

\* fmt.Sprintf("%v %v", key.Type(), keyBase64)
KeyText(key) == key.Type \o <<32>> \o RawStdEncoding(key.Marshal)

\* for i, k := range sshClientKeys { ... }: a line matched (the break).
RECURSIVE KeyFound(_, _, _)
KeyFound(sshClientKeys, i, key) ==
    IF i > Len(sshClientKeys) THEN FALSE
    ELSE IF sshClientKeys[i] = <<>> THEN KeyFound(sshClientKeys, i + 1, key)
         ELSE IF HasPrefix(sshClientKeys[i], KeyText(key)) THEN TRUE
              ELSE KeyFound(sshClientKeys, i + 1, key)

\* What the callback returns: (*ssh.Permissions, error).
Permissions == [perm |-> TRUE, err |-> "none"]
KeyNotFound == [perm |-> FALSE, err |-> "Key not found"]

\* sshConfig.PublicKeyCallback
PublicKeyCallback(bypass, sshClientKeys, key) ==
    IF ~bypass
    THEN IF ~KeyFound(sshClientKeys, 1, key) THEN KeyNotFound ELSE Permissions
    ELSE Permissions

\* Key types and keys.
SshRsa == <<115, 115, 104, 45, 114, 115, 97>>
SshEd == <<115, 115, 104, 45, 101, 100>>
PublicKey(type, marshal) == [Type |-> type, Marshal |-> marshal]
KeyShort == PublicKey(SshRsa, <<0>>)
KeyLong == PublicKey(SshRsa, <<0, 0>>)
KeyOther == PublicKey(SshRsa, <<255, 16>>)
KeyEd == PublicKey(SshEd, <<0>>)
Keys == {KeyShort, KeyLong, KeyOther, KeyEd}

\* Lines of an authorized keys text: a key with and without a comment, the
\* padded encoding, a line without the type, and the empty line.
AuthorizedLines ==
    {<<>>,
     KeyText(KeyLong),
     KeyText(KeyOther) \o <<32, 109, 101>>,
     KeyText(KeyEd) \o <<61, 61>>,
     RawStdEncoding(KeyShort.Marshal),
     <<32>> \o KeyText(KeyShort)}

\* The lines joined by "\n".
RECURSIVE JoinLines(_)
JoinLines(lines) ==
    IF lines = <<>> THEN <<>>
    ELSE IF Len(lines) = 1 THEN lines[1]
         ELSE lines[1] \o <<10>> \o JoinLines(Tail(lines))

AuthorizedTexts == {JoinLines(ls) : ls \in SeqsUpTo(AuthorizedLines, MaxKeyLines)}

NoKeyInput == [bypass |-> FALSE, text |-> <<>>, key |-> KeyShort]

\* No connection is being authenticated.
SshIdle ==
    /\ sshIn = NoKeyInput
    /\ sshOut = KeyNotFound
    /\ sshDone = TRUE

(***************************************************************************)
(* The state of the program.                                               *)
(***************************************************************************)
\* The outcomes of one pass: run()'s startup sequence, or one iteration of
\* routineUpdate's loop.
NewCycle ==
    [slurmErr     |-> "none",   \* err of updateSlurm
     slurmUpdated |-> FALSE,    \* slurmNotPresentOrUpdated
     fileErr      |-> "none",   \* err of updateFile
     cacheUpdated |-> FALSE,    \* cacheUpdated
     ran          |-> FALSE,    \* updateFromNewState was called
     stateErr     |-> "none",   \* err of updateFromNewState
     install      |-> FALSE,    \* server.AddVRPs was called
     notify       |-> FALSE,    \* server.NotifyClientsLatest was called
     export       |-> FALSE]    \* state.exported was assigned

NoLocal == [vrpsjson |-> NilData, vrps |-> <<>>, countv4 |-> 0, countv6 |-> 0]

NoMetrics ==
    [set |-> FALSE, ipv4 |-> 0, ipv6 |-> 0, ipv4filtered |-> 0, ipv6filtered |-> 0,
     change |-> ZeroTime]

NotInstalled ==
    [called |-> FALSE, vrpsjson |-> NilData, buildtime |-> BuildtimeText("", ZeroTime),
     changed |-> FALSE]

Unlocked == [writer |-> FALSE, readers |-> 0]

Configs ==
    [checktime : BOOLEAN, sendNotifs : BOOLEAN, slurm : BOOLEAN, slurmRefresh : BOOLEAN]

InitState ==
    /\ pc = "init_file"
    /\ phase = "startup"
    /\ lastdata = EmptyVRPList
    /\ lasthash = NoHash
    /\ lastchange = ZeroTime
    /\ slurm = NoSlurm
    /\ server = NewServer
    /\ exported = EmptyVRPList
    /\ lockJson = Unlocked
    /\ metrics = NoMetrics
    /\ cyc = NewCycle
    /\ local = NoLocal
    /\ delay = 0
    /\ signals = 0
    /\ listening = FALSE
    /\ clients = 0
    /\ epc = "idle"
    /\ toExport = EmptyVRPList

Init ==
    /\ cfg \in Configs
    /\ now = StartNow
    /\ InitState
    /\ lastInstall = NotInstalled
    /\ pdIn = <<>>
    /\ pdOut = NoOutput
    /\ pdDone = TRUE
    /\ SshIdle

(***************************************************************************)
(* The environment: the clock, and SIGHUP once routineUpdate listens for   *)
(* it.                                                                     *)
(***************************************************************************)
Tick ==
    /\ now + ClockStep <= StartNow + MaxTicks * ClockStep
    /\ now' = now + ClockStep
    /\ UNCHANGED <<lastInstall, refreshvars, signals, exportervars, pdvars, sshvars, clients>>

\* signals := make(chan os.Signal, 1)
SignalsCapacity == 1

\* A variant with room for two signals.
DeliverCapacityTwo(queued) == IF queued < SignalsCapacity + 1 THEN queued + 1 ELSE queued

\* signal.Notify's send does not block: a signal that finds the channel full is dropped.
Deliver(queued) == IF queued < SignalsCapacity THEN queued + 1 ELSE queued

Sighup ==
    /\ phase = "loop"
    /\ signals' = Deliver(signals)
    /\ UNCHANGED <<lastInstall, refreshvars, now, exportervars, pdvars, sshvars, clients>>

(***************************************************************************)
(* run(): the startup sequence.                                            *)
(***************************************************************************)
\* _, err := s.updateFile(*CacheBin)
StartFile ==
    /\ pc = "init_file"
    /\ \E fetch \in FetchOutcomes(Bodies) :
          LET r == updateFile(Memo(lasthash, lastdata, lastchange), fetch, now)
          IN  /\ lasthash' = r.memo.lasthash
              /\ lastdata' = r.memo.lastdata
              /\ lastchange' = r.memo.lastchange
              /\ cyc' = [cyc EXCEPT !.fileErr = r.err, !.cacheUpdated = r.ok]
    /\ pc' = "init_slurm"
    /\ UNCHANGED <<lastInstall, cfg, now, phase, slurm, server, exported, lockJson, metrics, local,
                   delay, signals, listening, exportervars, pdvars, sshvars, clients>>

\* if slurmFile != "" { _, err := s.updateSlurm(slurmFile) ... }
StartSlurm ==
    /\ pc = "init_slurm"
    /\ IF cfg.slurm
       THEN \E fetch \in FetchOutcomes(SlurmBodies) :
               LET r == updateSlurm(slurm, fetch)
               IN  /\ slurm' = r.slurm
                   /\ cyc' = [cyc EXCEPT !.slurmErr = r.err, !.slurmUpdated = r.ok]
       ELSE UNCHANGED <<slurm, cyc>>
    /\ pc' = "init_state"
    /\ UNCHANGED <<lastInstall, cfg, now, phase, lastdata, lasthash, lastchange, server, exported,
                   lockJson, metrics, local, delay, signals, listening, exportervars,
                   pdvars, sshvars, clients>>

\* err = s.updateFromNewState()
StartState ==
    /\ pc = "init_state"
    /\ pc' = "ufns_begin"
    /\ cyc' = [cyc EXCEPT !.ran = TRUE]
    /\ UNCHANGED <<lastInstall, cfg, now, phase, statevars, server, exported, lockJson, metrics,
                   local, delay, signals, listening, exportervars, pdvars, sshvars, clients>>

\* go func() { server.Start(*Bind) }() and the like for TLS and SSH: the
\* listeners are launched.
StartListeners ==
    /\ pc = "listen"
    /\ listening' = TRUE
    /\ pc' = "enter_loop"
    /\ UNCHANGED <<lastInstall, cfg, now, phase, statevars, server, exported, lockJson, metrics,
                   cyc, local, delay, signals, exportervars, pdvars, sshvars, clients>>

\* s.routineUpdate(*CacheBin, *RefreshInterval, slurmFile) is entered.
EnterLoop ==
    /\ pc = "enter_loop"
    /\ phase' = "loop"
    /\ cyc' = NewCycle
    /\ pc' = "loop_top"
    /\ UNCHANGED <<lastInstall, cfg, now, statevars, server, exported, lockJson, metrics, local,
                   delay, signals, listening, exportervars, pdvars, sshvars, clients>>

(***************************************************************************)
(* The listeners' goroutines: server.Start, StartTLS and StartSSH accept   *)
(* clients once they run.                                                  *)
(***************************************************************************)
MaxClients == 1     \* clients the model follows

\* A variant in which clients are accepted before the listeners are launched.
CanAcceptAlways(launched) == TRUE

\* A listener accepts only after its goroutine was launched.
CanAccept(launched) == launched

ListenerAccepts ==
    /\ CanAccept(listening)
    /\ clients < MaxClients
    /\ clients' = clients + 1
    /\ UNCHANGED <<lastInstall, refreshvars, now, signals, exportervars, pdvars, sshvars>>

(***************************************************************************)
(* state.routineUpdate: one iteration of the loop.                         *)
(***************************************************************************)
\* A variant that passes the SLURM file on whatever slurm.refresh says.
LoopSlurmFileAlways == cfg.slurm

\* The slurmFile routineUpdate is given: "" when slurm.refresh is off.
LoopSlurmFile == cfg.slurm /\ cfg.slurmRefresh

\* The timer of this iteration.
TimerSeconds(change) == IF change = ZeroTime THEN InitialSyncSeconds ELSE RefreshInterval

LoopTop ==
    /\ pc = "loop_top"
    /\ delay' = TimerSeconds(lastchange)
    /\ pc' = "select"
    /\ UNCHANGED <<lastInstall, cfg, now, phase, statevars, server, exported, lockJson, metrics,
                   cyc, local, signals, listening, exportervars, pdvars, sshvars, clients>>

\* case <-delay.C
TimerFires ==
    /\ pc = "select"
    /\ delay' = 0
    /\ pc' = "cyc_slurm"
    /\ UNCHANGED <<lastInstall, cfg, now, phase, statevars, server, exported, lockJson, metrics,
                   cyc, local, signals, listening, exportervars, pdvars, sshvars, clients>>

\* case <-signals
SignalReceived ==
    /\ pc = "select"
    /\ signals > 0
    /\ signals' = signals - 1
    /\ delay' = 0
    /\ pc' = "cyc_slurm"
    /\ UNCHANGED <<lastInstall, cfg, now, phase, statevars, server, exported, lockJson, metrics,
                   cyc, local, listening, exportervars, pdvars, sshvars, clients>>

CycleSlurm ==
    /\ pc = "cyc_slurm"
    /\ IF LoopSlurmFile
       THEN \E fetch \in FetchOutcomes(SlurmBodies) :
               LET r == updateSlurm(slurm, fetch)
               IN  /\ slurm' = r.slurm
                   /\ cyc' = [cyc EXCEPT !.slurmErr = r.err, !.slurmUpdated = r.ok]
       ELSE UNCHANGED <<slurm, cyc>>
    /\ pc' = "cyc_file"
    /\ UNCHANGED <<lastInstall, cfg, now, phase, lastdata, lasthash, lastchange, server, exported,
                   lockJson, metrics, local, delay, signals, listening, exportervars,
                   pdvars, sshvars, clients>>

CycleFile ==
    /\ pc = "cyc_file"
    /\ \E fetch \in FetchOutcomes(Bodies) :
          LET r == updateFile(Memo(lasthash, lastdata, lastchange), fetch, now)
          IN  /\ lasthash' = r.memo.lasthash
              /\ lastdata' = r.memo.lastdata
              /\ lastchange' = r.memo.lastchange
              /\ cyc' = [cyc EXCEPT !.fileErr = r.err, !.cacheUpdated = r.ok]
    /\ pc' = "cyc_decide"
    /\ UNCHANGED <<lastInstall, cfg, now, phase, slurm, server, exported, lockJson, metrics, local,
                   delay, signals, listening, exportervars, pdvars, sshvars, clients>>

\* A variant that processes only after a new document.
ShouldProcessCacheOnly(cacheUpdated, slurmNotPresentOrUpdated) == cacheUpdated

\* A variant that processes in every iteration.
ShouldProcessAlways(cacheUpdated, slurmNotPresentOrUpdated) == TRUE

\* if cacheUpdated || slurmNotPresentOrUpdated
ShouldProcess(cacheUpdated, slurmNotPresentOrUpdated) ==
    cacheUpdated \/ slurmNotPresentOrUpdated

CycleDecide ==
    /\ pc = "cyc_decide"
    /\ IF ShouldProcess(cyc.cacheUpdated, cyc.slurmUpdated)
       THEN /\ pc' = "ufns_begin"
            /\ cyc' = [cyc EXCEPT !.ran = TRUE]
       ELSE /\ pc' = "cyc_end"
            /\ UNCHANGED cyc
    /\ UNCHANGED <<lastInstall, cfg, now, phase, statevars, server, exported, lockJson, metrics,
                   local, delay, signals, listening, exportervars, pdvars, sshvars, clients>>

\* A variant in which an error ends the routine.
AfterCycleStopOnError(c) ==
    IF c.fileErr \in {"HttpError", "DecodeError"} \/ c.slurmErr \in {"HttpError", "DecodeError"}
       \/ c.stateErr # "none"
    THEN "stopped" ELSE "loop_top"

\* for { ... }: whatever the iteration's errors, the next one follows.
AfterCycle(c) == "loop_top"

CycleEnd ==
    /\ pc = "cyc_end"
    /\ pc' = AfterCycle(cyc)
    /\ cyc' = NewCycle
    /\ UNCHANGED <<lastInstall, cfg, now, phase, statevars, server, exported, lockJson, metrics,
                   local, delay, signals, listening, exportervars, pdvars, sshvars, clients>>

(***************************************************************************)
(* state.updateFromNewState.                                               *)
(***************************************************************************)
\* How updateFromNewState returns to its caller.
Return == IF phase = "startup" THEN "listen" ELSE "cyc_end"

\* The counting loop before UpdateMetrics: the VRPs of a family in vrps.
CountFamily(vrps, v4) == Cardinality({i \in 1..Len(vrps) : IsV4(vrps[i].Prefix) = v4})

\* A variant without the early return.
NoDataListNever(data) == FALSE

\* vrpsjson := s.lastdata.Data; if vrpsjson == nil { return nil }
NoDataList(data) == data.isnil

\* From the entry to server.AddVRPs(vrps), or to an early return.
UpdateInstall ==
    /\ pc = "ufns_begin"
    /\ IF NoDataList(lastdata.Data)
       THEN /\ pc' = Return
            /\ UNCHANGED <<server, local, cyc, lastInstall>>
       ELSE \E err \in {checkBuildtime(cfg.checktime, lastdata, now)} :
               IF err # "none"
               THEN /\ pc' = Return
                    /\ cyc' = [cyc EXCEPT !.stateErr = err]
                    /\ UNCHANGED <<server, local, lastInstall>>
               ELSE \E vrpsjson \in {applySlurm(slurm, lastdata.Data)} :
                    \E r \in {processData(vrpsjson.list)} :
                       /\ server' = AddVRPs(server, r.vrplist)
                       /\ local' = [vrpsjson |-> vrpsjson, vrps |-> r.vrplist,
                                    countv4 |-> r.countv4, countv6 |-> r.countv6]
                       /\ lastInstall' = [called |-> TRUE, vrpsjson |-> vrpsjson,
                                          buildtime |-> lastdata.Metadata.Buildtime,
                                          changed |-> AddVRPs(server, r.vrplist) # server]
                       /\ cyc' = [cyc EXCEPT !.install = TRUE]
                       /\ pc' = "ufns_notify"
    /\ UNCHANGED <<cfg, now, phase, statevars, exported, lockJson, metrics, delay,
                   signals, listening, exportervars, pdvars, sshvars, clients>>

\* A variant that never broadcasts.
ShouldNotifyNever(sendNotifs) == FALSE

\* A variant that broadcasts whatever the flag says.
ShouldNotifyAlways(sendNotifs) == TRUE

\* if s.sendNotifs
ShouldNotify(sendNotifs) == sendNotifs

UpdateNotify ==
    /\ pc = "ufns_notify"
    /\ cyc' = [cyc EXCEPT !.notify = ShouldNotify(cfg.sendNotifs)]
    /\ pc' = "ufns_lock"
    /\ UNCHANGED <<cfg, now, phase, statevars, server, exported, lockJson, metrics,
                   local, lastInstall, delay, signals, listening, exportervars, pdvars, sshvars, clients>>

\* A lock that does not wait for the readers.
CanLockNoWait(l) == TRUE

\* sync.RWMutex.Lock: granted when nobody holds the lock.
CanLock(l) == ~l.writer /\ l.readers = 0

\* sync.RWMutex.RLock: granted when no writer holds the lock.
CanRLock(l) == ~l.writer

\* s.lockJson.Lock()
UpdateLock ==
    /\ pc = "ufns_lock"
    /\ CanLock(lockJson)
    /\ lockJson' = [lockJson EXCEPT !.writer = TRUE]
    /\ pc' = "ufns_write_meta"
    /\ UNCHANGED <<cfg, now, phase, statevars, server, exported, metrics, cyc, local,
                   lastInstall, delay, signals, listening, exportervars, pdvars, sshvars, clients>>

\* A variant that exports the upstream list, not the list SLURM left.
ExportedDocumentUpstream(vrpsjson, data) ==
    VRPList(Len(data.Data.list), data.Metadata.Buildtime, data.Data)

\* prefixfile.VRPList{Metadata: {Counts: len(vrpsjson), Buildtime: ...}, Data: vrpsjson}
ExportedDocument(vrpsjson, data) ==
    VRPList(Len(vrpsjson.list), data.Metadata.Buildtime, vrpsjson)

\* s.exported = prefixfile.VRPList{...}: the Metadata field is stored ...
UpdateWriteMetadata ==
    /\ pc = "ufns_write_meta"
    /\ exported' = [exported EXCEPT
                       !.Metadata = ExportedDocument(local.vrpsjson, lastdata).Metadata]
    /\ pc' = "ufns_write_data"
    /\ UNCHANGED <<cfg, now, phase, statevars, server, lockJson, metrics, cyc, local,
                   lastInstall, delay, signals, listening, exportervars, pdvars, sshvars, clients>>

\* ... and then the Data field.
UpdateWriteData ==
    /\ pc = "ufns_write_data"
    /\ exported' = [exported EXCEPT
                       !.Data = ExportedDocument(local.vrpsjson, lastdata).Data]
    /\ cyc' = [cyc EXCEPT !.export = TRUE]
    /\ pc' = "ufns_unlock"
    /\ UNCHANGED <<cfg, now, phase, statevars, server, lockJson, metrics, local,
                   lastInstall, delay, signals, listening, exportervars, pdvars, sshvars, clients>>

\* s.lockJson.Unlock()
UpdateUnlock ==
    /\ pc = "ufns_unlock"
    /\ lockJson' = [lockJson EXCEPT !.writer = FALSE]
    /\ pc' = "ufns_metrics"
    /\ UNCHANGED <<cfg, now, phase, statevars, server, exported, metrics, cyc, local,
                   lastInstall, delay, signals, listening, exportervars, pdvars, sshvars, clients>>

\* s.metricsEvent.UpdateMetrics(...); return nil
UpdateMetrics ==
    /\ pc = "ufns_metrics"
    /\ metrics' = [set |-> TRUE,
                   ipv4 |-> local.countv4,
                   ipv6 |-> local.countv6,
                   ipv4filtered |-> CountFamily(local.vrps, TRUE),
                   ipv6filtered |-> CountFamily(local.vrps, FALSE),
                   change |-> lastchange]
    /\ local' = NoLocal
    /\ pc' = Return
    /\ UNCHANGED <<cfg, now, phase, statevars, server, exported, lockJson, cyc,
                   lastInstall, delay, signals, listening, exportervars, pdvars, sshvars, clients>>

(***************************************************************************)
(* state.exporter, the handler of the export path.                         *)
(***************************************************************************)
\* s.lockJson.RLock()
ExporterRLock ==
    /\ epc = "idle"
    /\ CanRLock(lockJson)
    /\ lockJson' = [lockJson EXCEPT !.readers = @ + 1]
    /\ epc' = "read_meta"
    /\ UNCHANGED <<cfg, now, pc, phase, statevars, server, exported, metrics, cyc, local,
                   lastInstall, delay, signals, listening, toExport, pdvars, sshvars, clients>>

\* toExport := s.exported: the Metadata field is copied ...
ExporterReadMetadata ==
    /\ epc = "read_meta"
    /\ toExport' = [toExport EXCEPT !.Metadata = exported.Metadata]
    /\ epc' = "read_data"
    /\ UNCHANGED <<refreshvars, lastInstall, now, signals, pdvars, sshvars, clients>>

\* ... and then the Data field.
ExporterReadData ==
    /\ epc = "read_data"
    /\ toExport' = [toExport EXCEPT !.Data = exported.Data]
    /\ epc' = "runlock"
    /\ UNCHANGED <<refreshvars, lastInstall, now, signals, pdvars, sshvars, clients>>

\* s.lockJson.RUnlock(); enc.Encode(toExport): the copy is written as the
\* response and the handler returns.
ExporterRUnlock ==
    /\ epc = "runlock"
    /\ lockJson' = [lockJson EXCEPT !.readers = @ - 1]
    /\ epc' = "idle"
    /\ toExport' = EmptyVRPList
    /\ UNCHANGED <<cfg, now, pc, phase, statevars, server, exported, metrics, cyc, local,
                   lastInstall, delay, signals, listening, pdvars, sshvars, clients>>

(***************************************************************************)
(* The specifications.                                                     *)
(***************************************************************************)
Startup == StartFile \/ StartSlurm \/ StartState \/ StartListeners \/ EnterLoop

updateFromNewState ==
    UpdateInstall \/ UpdateNotify \/ UpdateLock \/ UpdateWriteMetadata
    \/ UpdateWriteData \/ UpdateUnlock \/ UpdateMetrics

exporter ==
    ExporterRLock \/ ExporterReadMetadata \/ ExporterReadData \/ ExporterRUnlock

\* The refresh task when no SIGHUP is sent.
RefreshByTimer ==
    Startup \/ LoopTop \/ TimerFires \/ CycleSlurm \/ CycleFile \/ CycleDecide
    \/ CycleEnd \/ updateFromNewState

Refresh == RefreshByTimer \/ SignalReceived

\* The refresh task and its environment.
Next == Tick \/ Sighup \/ Refresh

Spec == Init /\ [][Next]_vars

\* The refresh task and the exporter handler, interleaved.
\* The refresh task while the timer of the select has not expired: an
\* iteration starts on a SIGHUP only.  The task takes the steps it can
\* take; signals arrive at any time.
RefreshBySignal ==
    Startup \/ LoopTop \/ SignalReceived \/ CycleSlurm \/ CycleFile \/ CycleDecide
    \/ CycleEnd \/ updateFromNewState

NextSighup == RefreshBySignal \/ Sighup

SighupSpec == Init /\ [][NextSighup]_vars /\ WF_vars(RefreshBySignal)

\* run() up to the first select of routineUpdate, beside the listeners'
\* goroutines.
NextListen == Startup \/ updateFromNewState \/ LoopTop \/ ListenerAccepts

SpecListen == Init /\ [][NextListen]_vars

NextExport == RefreshByTimer \/ exporter

SpecExport == Init /\ [][NextExport]_vars

\* The hours the clock can show.
Hours == {StartNow + k * ClockStep : k \in 0..MaxTicks}

\* The refresh task started at any of the hours, which is never stopped for
\* ever while it can take a step: a fetch returns, and the timer of the
\* select fires.
InitAnyHour ==
    /\ cfg \in Configs
    /\ now \in Hours
    /\ InitState
    /\ lastInstall = NotInstalled
    /\ pdIn = <<>>
    /\ pdOut = NoOutput
    /\ pdDone = TRUE
    /\ SshIdle

FairSpec == InitAnyHour /\ [][RefreshByTimer]_vars /\ WF_vars(RefreshByTimer)

(***************************************************************************)
(* processData on its own: every list of up to MaxLen entries.             *)
(***************************************************************************)
InitPD ==
    /\ cfg = [checktime |-> TRUE, sendNotifs |-> TRUE, slurm |-> FALSE,
              slurmRefresh |-> TRUE]
    /\ now = StartNow
    /\ InitState
    /\ lastInstall = NotInstalled
    /\ pdIn \in SeqsUpTo(PDEntries, MaxLen)
    /\ pdOut = NoOutput
    /\ pdDone = FALSE
    /\ SshIdle

CallProcessData ==
    /\ ~pdDone
    /\ pdOut' = processData(pdIn)
    /\ pdDone' = TRUE
    /\ UNCHANGED <<pdIn, refreshvars, lastInstall, now, signals, exportervars, sshvars, clients>>

NextPD == CallProcessData

SpecPD == InitPD /\ [][NextPD]_vars

(***************************************************************************)
(* The PublicKeyCallback on its own: every authorized keys text of up to   *)
(* MaxKeyLines lines, every key, bypass on and off.                        *)
(***************************************************************************)
InitSSH ==
    /\ cfg = [checktime |-> TRUE, sendNotifs |-> TRUE, slurm |-> FALSE,
              slurmRefresh |-> TRUE]
    /\ now = StartNow
    /\ InitState
    /\ lastInstall = NotInstalled
    /\ pdIn = <<>>
    /\ pdOut = NoOutput
    /\ pdDone = TRUE
    /\ sshIn \in [bypass : BOOLEAN, text : AuthorizedTexts, key : Keys]
    /\ sshOut = KeyNotFound
    /\ sshDone = FALSE

CallPublicKeyCallback ==
    /\ ~sshDone
    /\ sshOut' = PublicKeyCallback(sshIn.bypass, SplitLines(sshIn.text), sshIn.key)
    /\ sshDone' = TRUE
    /\ UNCHANGED <<sshIn, pdvars, refreshvars, lastInstall, now, signals, exportervars, clients>>

NextSSH == CallPublicKeyCallback

SpecSSH == InitSSH /\ [][NextSSH]_vars

(***************************************************************************)
(* updateFromNewState on its own: run()'s first call of it, after          *)
(* updateFile decoded a document with any list of up to MaxLen entries and *)
(* updateSlurm loaded a policy or none.                                    *)
(***************************************************************************)
InitUpdate ==
    /\ cfg = [checktime |-> FALSE, sendNotifs |-> TRUE, slurm |-> TRUE,
              slurmRefresh |-> TRUE]
    /\ now = StartNow
    /\ pc = "ufns_begin"
    /\ phase = "startup"
    /\ \E list \in SeqsUpTo(PDEntries, MaxLen) :
          /\ lastdata = VRPList(Len(list), BuildtimeText("ts", StartNow), DataOf(list))
          /\ lasthash = newSHA256(Body(list, TRUE, lastdata))
    /\ lastchange = StartNow
    /\ slurm \in {NoSlurm, SlurmDropAS1, SlurmDropV6}
    /\ cyc = [NewCycle EXCEPT !.cacheUpdated = TRUE, !.ran = TRUE,
                              !.slurmUpdated = slurm.loaded,
                              !.slurmErr = IF slurm.loaded THEN "none" ELSE "HttpError"]
    /\ server = NewServer
    /\ exported = EmptyVRPList
    /\ lockJson = Unlocked
    /\ metrics = NoMetrics
    /\ local = NoLocal
    /\ delay = 0
    /\ signals = 0
    /\ listening = FALSE
    /\ clients = 0
    /\ epc = "idle"
    /\ toExport = EmptyVRPList
    /\ lastInstall = NotInstalled
    /\ pdIn = <<>>
    /\ pdOut = NoOutput
    /\ pdDone = TRUE
    /\ sshIn = NoKeyInput
    /\ sshOut = KeyNotFound
    /\ sshDone = TRUE

NextUpdate == updateFromNewState

SpecUpdate == InitUpdate /\ [][NextUpdate]_vars

(***************************************************************************)
(* The properties.                                                         *)
(***************************************************************************)
UpdatePcs ==
    {"ufns_begin", "ufns_notify", "ufns_lock", "ufns_write_meta", "ufns_write_data",
     "ufns_unlock", "ufns_metrics"}

\* updateFromNewState takes its first step: it installs or returns early.
UpdateBegins == pc = "ufns_begin" /\ pc' # "ufns_begin"

\* The document in lastdata is fresh at the hour t: its build time is an
\* RFC3339 text and t is not after that time plus 24 hours.
Fresh(doc, t) ==
    /\ doc.Metadata.Buildtime.txt = "ts"
    /\ t <= doc.Metadata.Buildtime.t + StaleHours

\* What C1 says of a first step of updateFromNewState.
StaleRule ==
    IF cfg.checktime /\ ~Fresh(lastdata, now)
    THEN /\ cyc'.stateErr # "none"
         /\ pc' \in {"listen", "cyc_end"}
         /\ ~cyc'.install /\ ~cyc'.notify /\ ~cyc'.export
         /\ server' = server
         /\ exported' = exported
         /\ metrics' = metrics
    ELSE /\ cyc'.install
         /\ cyc'.stateErr = "none"

\* C1, as stated: with checktime on, updateFromNewState calls
\* server.AddVRPs only when the document's build time parses and the time
\* is not after build time + 24h; otherwise it returns an error and leaves
\* the installed set, the serial, the exported document and the metrics as
\* they were, and nothing is broadcast.  With checktime off the build time
\* never prevents the install.
C1_StaleRejectedAnyDocument ==
    [][(UpdateBegins /\ lasthash # NoHash) => StaleRule]_vars

\* C1, amended: the same of a document that has a list (lastdata.Data is
\* not nil).
C1_StaleRejected ==
    [][(UpdateBegins /\ lasthash # NoHash /\ ~lastdata.Data.isnil) => StaleRule]_vars

\* A document built more than 24 hours ago was rejected in a cycle of the
\* loop, with a set installed before.
C1_Witness ==
    /\ pc = "cyc_end"
    /\ cyc.stateErr = "Stale"
    /\ server.hasData
    /\ exported # EmptyVRPList

\* What updateFile reports when the upstream has nothing new.
NothingNew == {"HttpNotModified", "IdenticalFile"}

\* C2, as stated: in every iteration of the loop in which the fetch reports
\* not-modified or the body's hash is the previous hash, nothing is
\* installed, nothing is broadcast and the exported document is not assigned.
C2_NothingNewNoChange ==
    (phase = "loop" /\ cyc.fileErr \in NothingNew) =>
        ~cyc.install /\ ~cyc.notify /\ ~cyc.export

\* C2, amended: the same, for the iterations in which updateSlurm did not
\* load a policy.
C2_NothingNewNoSlurmNoChange ==
    (phase = "loop" /\ cyc.fileErr \in NothingNew /\ ~cyc.slurmUpdated) =>
        ~cyc.ran /\ ~cyc.install /\ ~cyc.notify /\ ~cyc.export

\* An iteration ends early on an identical body, with a set installed before.
C2_Witness ==
    /\ phase = "loop"
    /\ pc = "cyc_end"
    /\ cyc.fileErr = "IdenticalFile"
    /\ ~cyc.slurmUpdated
    /\ ~cyc.ran
    /\ server.hasData

\* A step of the iteration under way failed.
CycleFailed ==
    /\ phase = "loop"
    /\ \/ cyc.slurmErr \in {"HttpError", "DecodeError"}
       \/ cyc.fileErr \in {"HttpError", "DecodeError"}
       \/ cyc.stateErr # "none"

\* C3: an iteration of the loop in which the SLURM fetch, the VRP fetch, the
\* decoding or updateFromNewState failed is followed by the select of the
\* next iteration and, the timer firing, by the next iteration.
C3_LoopContinues ==
    /\ CycleFailed ~> (pc = "select")
    /\ (pc = "select") ~> (pc = "cyc_slurm")

\* An iteration in which updateFromNewState failed is about to end.
C3_Witness ==
    /\ pc = "cyc_end"
    /\ phase = "loop"
    /\ cyc.stateErr # "none"
    /\ cyc.slurmErr = "DecodeError"

\* updateFile returns.
UpdateFileReturns == pc \in {"init_file", "cyc_file"} /\ pc' # pc

\* C4: updateFile leaves lasthash, lastdata and lastchange alone when the
\* fetch fails, the body's hash is the previous one or the body does not
\* decode; it replaces the three together when the body decodes, and
\* returns true exactly then.  The hash of a body that did not decode is
\* never remembered.
C4_UpdateFileAllOrNothing ==
    /\ [](lasthash # newSHA256(BodyMalformed))
    /\ [][UpdateFileReturns =>
             IF cyc'.fileErr # "none"
             THEN /\ ~cyc'.cacheUpdated
                  /\ <<lasthash, lastdata, lastchange>>' = <<lasthash, lastdata, lastchange>>
             ELSE /\ cyc'.cacheUpdated
                  /\ lastchange' = now
                  /\ lasthash' # lasthash
                  /\ \E b \in Bodies :
                        /\ b.wellformed
                        /\ lasthash' = newSHA256(b)
                        /\ lastdata' = b.doc]_vars

\* A body that does not decode was fetched after a document had been decoded.
C4_Witness ==
    /\ pc = "cyc_decide"
    /\ cyc.fileErr = "DecodeError"
    /\ lasthash # NoHash

(***************************************************************************)
(* processData.                                                            *)
(***************************************************************************)
\* The entry parses and its lengths are in order for its family.
ValidEntry(v) ==
    /\ v.Prefix.form \in {"v4", "v6"}
    /\ v.ASN.form \in {"asstring", "number"}
    /\ 0 < v.Prefix.ones
    /\ v.Prefix.ones <= v.Length
    /\ v.Length <= (IF v.Prefix.form = "v4" THEN 32 ELSE 128)

\* The identity triple (prefix, asn, max_length) of an entry and of a VRP.
TripleOfEntry(v) == <<v.Prefix.form, v.Prefix.addr, v.Prefix.ones, v.ASN.val, v.Length>>

TripleOfVRP(x) == <<x.Prefix.fam, x.Prefix.ip, x.Prefix.ones, x.ASN, x.MaxLen>>

\* Where the triple t first occurs among the valid entries of list.
FirstValid(list, t) ==
    CHOOSE i \in 1..Len(list) :
        /\ ValidEntry(list[i]) /\ TripleOfEntry(list[i]) = t
        /\ \A k \in 1..(i - 1) : ~(ValidEntry(list[k]) /\ TripleOfEntry(list[k]) = t)

\* C5: the list processData returns holds no identity triple twice, holds
\* the triple of every valid entry of the input, and is in the order in
\* which the triples first occur in the input.
C5_DedupByTriple ==
    pdDone =>
        LET out == pdOut.vrplist
        IN  /\ \A i, k \in 1..Len(out) :
                  i # k => TripleOfVRP(out[i]) # TripleOfVRP(out[k])
            /\ {TripleOfVRP(out[i]) : i \in 1..Len(out)}
                  = {TripleOfEntry(pdIn[i]) : i \in {k \in 1..Len(pdIn) : ValidEntry(pdIn[k])}}
            /\ \A i, k \in 1..Len(out) :
                  i < k => FirstValid(pdIn, TripleOfVRP(out[i]))
                              < FirstValid(pdIn, TripleOfVRP(out[k]))

\* Three valid entries, two of them the same triple written differently and
\* the last differing in the max length only: two VRPs come out.
C5_Witness ==
    /\ pdDone
    /\ pdIn = <<E_a1, E_a1num, E_a1x25>>
    /\ Len(pdOut.vrplist) = 2

\* C6: every VRP processData returns has 0 < network length <= max length
\* <= 32 (IPv4) or 128 (IPv6); an entry that breaks this or does not parse is
\* left out, and every other entry of the list still comes out.
C6_LengthsInOrder ==
    pdDone =>
        LET out == pdOut.vrplist
        IN  /\ \A i \in 1..Len(out) :
                  /\ 0 < out[i].Prefix.ones
                  /\ out[i].Prefix.ones <= out[i].MaxLen
                  /\ out[i].MaxLen <= (IF out[i].Prefix.fam = "v4" THEN 32 ELSE 128)
            /\ \A i \in 1..Len(pdIn) :
                  ValidEntry(pdIn[i])
                     <=> \E k \in 1..Len(out) : TripleOfVRP(out[k]) = TripleOfEntry(pdIn[i])

\* A list that starts with an entry whose max length is above 32 and goes on
\* with valid entries.
C6_Witness ==
    /\ pdDone
    /\ Len(pdIn) = 3
    /\ pdIn[1] = E_wide
    /\ pdIn[2] = E_badp
    /\ Len(pdOut.vrplist) = 1

(***************************************************************************)
(* SLURM, the exported document, the broadcast.                            *)
(***************************************************************************)
\* The policy s filters the entry v: one of its filters names v's prefix
\* (or one covering it), v's ASN, or both.
Removes(s, v) ==
    \E f \in s.filters :
        /\ f.hasPrefix =>
              /\ v.Prefix.form = f.prefix.form
              /\ v.Prefix.addr = f.prefix.addr
              /\ v.Prefix.ones >= f.prefix.ones
        /\ f.hasAsn => v.ASN.form \in {"asstring", "number"} /\ v.ASN.val = f.asn

\* C7: with a policy loaded, the list processed and installed is the
\* upstream entries the policy does not filter, in their order, followed by
\* the policy's assertions, none of them filtered; a filtered entry is in it
\* only when it is asserted as well.  With no policy loaded it is the
\* upstream list.
C7_SlurmOrder ==
    [][(UpdateBegins /\ cyc'.install) =>
          LET up == lastdata.Data.list
              got == local'.vrpsjson.list
              n == Len(got) - Len(slurm.assertions)
          IN  /\ lastInstall'.vrpsjson = local'.vrpsjson
              /\ local'.vrps = processData(got).vrplist
              /\ server'.vrps = Range(local'.vrps)
              /\ IF slurm.loaded
                 THEN /\ n >= 0
                      /\ SubSeq(got, 1, n) = SelectSeq(up, LAMBDA v : ~Removes(slurm, v))
                      /\ SubSeq(got, n + 1, Len(got)) = slurm.assertions
                      /\ \A i \in 1..Len(up) :
                            (Removes(slurm, up[i]) /\ up[i] \in Range(got))
                               => up[i] \in Range(slurm.assertions)
                 ELSE local'.vrpsjson = lastdata.Data]_vars

\* An install under a policy that filters an upstream entry and asserts the
\* same entry, which its own filter names.
C7_Witness ==
    /\ pc = "ufns_notify"
    /\ slurm = SlurmDropAS1
    /\ lastdata = BodyNew.doc
    /\ E_a1x25 \in Range(local.vrpsjson.list)
    /\ Removes(slurm, E_a1x25)
    /\ E_a1 \notin Range(local.vrpsjson.list)

\* C8: while no updateFromNewState call is under way, the exported document
\* holds the list from which the latest AddVRPs call's set was computed, and
\* that document's build time; before any install it is the empty document.
\* Only an updateFromNewState call that has installed assigns it.
C8_ExportIsInstalled ==
    /\ [](pc \notin UpdatePcs =>
            IF lastInstall.called
            THEN /\ exported.Data = lastInstall.vrpsjson
                 /\ exported.Metadata.Buildtime = lastInstall.buildtime
                 /\ server.vrps = Range(processData(exported.Data.list).vrplist)
            ELSE exported = EmptyVRPList /\ ~server.hasData)
    /\ [][exported' # exported =>
             /\ pc \in {"ufns_write_meta", "ufns_write_data"}
             /\ cyc.install]_vars

\* Between two iterations, the exported list is what SLURM left of an
\* upstream list, and differs from it.
C8_Witness ==
    /\ pc = "select"
    /\ lastInstall.called
    /\ slurm.loaded
    /\ exported.Data # lastdata.Data
    /\ exported.Metadata.Buildtime = lastdata.Metadata.Buildtime

\* The policies a SLURM file can load.
Policies == {SlurmDropAS1, SlurmDropV6}

\* What the policy p (or none) leaves of the list of the document doc.
PostSlurm(p, doc) ==
    IF p.loaded
    THEN DataOf(SelectSeq(doc.Data.list, LAMBDA v : ~Removes(p, v)) \o p.assertions)
    ELSE doc.Data

\* The complete documents: the empty document the program starts with, and
\* for each upstream document with a list and each policy (or none) the
\* document with the list the policy leaves, the number of its entries as
\* metadata.counts and the upstream document's build time.
CompleteDocuments ==
    {EmptyVRPList} \cup
    {VRPList(Len(PostSlurm(p, b.doc).list), b.doc.Metadata.Buildtime, PostSlurm(p, b.doc)) :
        b \in {x \in Bodies : x.wellformed /\ ~x.doc.Data.isnil},
        p \in Policies \cup {NoSlurm}}

\* C9: however the exporter and the refresh task interleave, the document
\* the exporter has copied when it releases the lock is the exported
\* document as it stands, which is a complete one: its metadata.counts is
\* the length of its list and its build time that of the document the list
\* came from.
C9_ExportAtomic ==
    /\ epc = "runlock" =>
          /\ toExport = exported
          /\ toExport \in CompleteDocuments
          /\ toExport.Metadata.Counts = Len(toExport.Data.list)
    /\ ~lockJson.writer => exported \in CompleteDocuments

\* The exporter has copied a document while the refresh task, having
\* installed another list, waits for the lock.
C9_Witness ==
    /\ epc = "runlock"
    /\ pc = "ufns_lock"
    /\ toExport # EmptyVRPList
    /\ toExport.Data # local.vrpsjson
    /\ toExport.Metadata.Counts # Len(local.vrpsjson.list)

\* C10: with notifications off NotifyClientsLatest is never called; with
\* them on, a call comes after server.AddVRPs has returned in the same
\* updateFromNewState call, the server holding the set just computed.
C10_NotifyAfterInstall ==
    /\ [](cyc.notify => cfg.sendNotifs /\ cyc.install)
    /\ [][(cyc'.notify /\ ~cyc.notify) =>
             /\ cfg.sendNotifs
             /\ pc = "ufns_notify"
             /\ cyc.install
             /\ server.vrps = Range(local.vrps)
             /\ server' = server]_vars

\* A broadcast has been made after an install that changed the set.
C10_Witness ==
    /\ pc = "ufns_lock"
    /\ cyc.notify
    /\ server.serial > 0

(***************************************************************************)
(* The cadence of the loop.                                                *)
(***************************************************************************)
\* C11, as stated: the timer of an iteration that begins while
\* server.AddVRPs has not been called yet is of 30 seconds, and the timer
\* of an iteration that begins after it was called is of the configured
\* interval.
C11_ThirtySecondsUntilInstall ==
    (pc = "select") =>
        delay = IF lastInstall.called THEN RefreshInterval ELSE InitialSyncSeconds

\* C12: a SIGHUP that arrives while routineUpdate waits in the select, or
\* while an iteration runs, is taken off the channel later on, and only the
\* select's signal case takes it off, which starts an iteration although
\* the timer has not expired; the signal stays queued until then; and the
\* signal case leaves the channel empty, so the signals of one iteration
\* start one iteration.
C12_SighupStartsCycle ==
    /\ (signals > 0) ~> (signals = 0)
    /\ [][signals' < signals =>
             /\ pc = "select" /\ pc' = "cyc_slurm"
             /\ delay' = 0
             /\ signals' = 0]_vars
    /\ [][(signals > 0 /\ pc # "select") => signals' = signals]_vars

\* A signal is queued while an iteration fetches the document.
C12_Witness ==
    /\ phase = "loop"
    /\ pc = "cyc_file"
    /\ signals = 1

(***************************************************************************)
(* SLURM in the loop.                                                      *)
(***************************************************************************)
\* updateSlurm was called in the pass under way: it returned true or an error.
SlurmFetched(c) == c.slurmUpdated \/ c.slurmErr # "none"

\* The list updateFromNewState processes under the policy s, from the
\* upstream list up: the entries no filter of s names, then the assertions.
UnderPolicy(s, up) ==
    IF s.loaded
    THEN SelectSeq(up, LAMBDA v : ~Removes(s, v)) \o s.assertions
    ELSE up

\* C13: with a SLURM file configured and slurm.refresh off, the startup
\* sequence calls updateSlurm, no step of the loop calls it or changes the
\* policy, and every install of the loop processes the upstream list under
\* the policy the startup left.
C13_SlurmLoadedOnce ==
    /\ [][(pc = "init_slurm" /\ pc' # pc /\ cfg.slurm) => SlurmFetched(cyc')]_vars
    /\ [][(phase = "loop" /\ cfg.slurm /\ ~cfg.slurmRefresh) =>
             /\ slurm' = slurm
             /\ ~SlurmFetched(cyc')
             /\ (UpdateBegins /\ cyc'.install) =>
                   /\ lastInstall'.vrpsjson.list = UnderPolicy(slurm, lastdata.Data.list)
                   /\ server'.vrps = Range(processData(lastInstall'.vrpsjson.list).vrplist)]_vars

\* With slurm.refresh off, the loop installs a new document under the policy
\* of the startup, which filters one of its entries.
C13_Witness ==
    /\ phase = "loop"
    /\ cfg.slurm /\ ~cfg.slurmRefresh
    /\ pc = "ufns_notify"
    /\ slurm = SlurmDropAS1
    /\ lastdata = BodyNew.doc
    /\ E_a1 \notin Range(lastInstall.vrpsjson.list)
    /\ E_a1x25 \in Range(lastInstall.vrpsjson.list)

\* updateSlurm returns in an iteration of the loop.
UpdateSlurmReturns == pc = "cyc_slurm" /\ pc' = "cyc_file" /\ LoopSlurmFile

\* C14, as stated: in an iteration in which the SLURM body fetched and
\* decoded is the one loaded before, updateSlurm reports no update, so that
\* with nothing new from the upstream either updateFromNewState is not
\* called.  (A body stands for its policy: the body fetched is the one
\* loaded before exactly when the policy decoded is the policy held.)
C14_IdenticalSlurmNotUpdated ==
    [][(UpdateSlurmReturns /\ slurm.loaded /\ cyc'.slurmErr = "none" /\ slurm' = slurm)
          => ~cyc'.slurmUpdated]_vars

(***************************************************************************)
(* SSH key authentication.                                                 *)
(***************************************************************************)
\* The line begins with the key's type, a space and the unpadded base64 of
\* the key: it is that text followed by some rest.
BeginsWithKey(line, key) ==
    \E n \in 0..Len(line) :
        /\ n = Len(key.Type) + 1 + Len(RawStdEncoding(key.Marshal))
        /\ \A i \in 1..n :
              line[i] = (key.Type \o <<32>> \o RawStdEncoding(key.Marshal))[i]

\* C15: with bypass off, the callback accepts a key exactly when some
\* non-empty line of the authorized keys text begins with the key's type
\* and base64 encoding, so a text without such lines accepts no key; with
\* bypass on it accepts every key; and it returns either the Permissions or
\* an error, never both.
C15_KeyAcceptedIffListed ==
    sshDone =>
        LET lines == SplitLines(sshIn.text)
            listed == \E i \in 1..Len(lines) :
                         lines[i] # <<>> /\ BeginsWithKey(lines[i], sshIn.key)
        IN  /\ sshOut.perm <=> (sshIn.bypass \/ listed)
            /\ sshOut.perm <=> (sshOut.err = "none")

\* With bypass off, a key is accepted on the second line of the text, which
\* carries a comment after the key; the first line is another key's.
C15_Witness ==
    /\ sshDone
    /\ ~sshIn.bypass
    /\ sshIn.key = KeyOther
    /\ Len(SplitLines(sshIn.text)) = 2
    /\ ~BeginsWithKey(SplitLines(sshIn.text)[1], sshIn.key)
    /\ sshOut.perm

(***************************************************************************)
(* When the loop processes.                                                *)
(***************************************************************************)
\* An iteration of the loop decides whether to call updateFromNewState.
Decides == phase = "loop" /\ pc = "cyc_decide" /\ pc' # pc

\* C16: an iteration of the loop calls updateFromNewState exactly when, in
\* that iteration, updateFile returned true or updateSlurm returned true;
\* updateSlurm returns true only when it was called and did not fail, so
\* without a SLURM file in the loop, or with a failed SLURM fetch, only a
\* new document is processed.  Nothing else in the loop calls it.
C16_ProcessIffUpdated ==
    /\ [][Decides =>
             /\ cyc'.ran <=> (cyc.cacheUpdated \/ cyc.slurmUpdated)
             /\ (pc' = "ufns_begin") <=> cyc'.ran
             /\ (~LoopSlurmFile \/ cyc.slurmErr # "none") => ~cyc.slurmUpdated
             /\ cyc.cacheUpdated <=> (cyc.fileErr = "none")]_vars
    /\ [][(phase = "loop" /\ pc' = "ufns_begin" /\ pc # "ufns_begin") => Decides]_vars

\* An iteration processes the document held because the SLURM file was
\* loaded, the upstream reporting nothing new.
C16_Witness ==
    /\ phase = "loop"
    /\ pc = "ufns_begin"
    /\ cyc.ran
    /\ cyc.slurmUpdated
    /\ ~cyc.cacheUpdated
    /\ cyc.fileErr = "HttpNotModified"

(***************************************************************************)
(* Notifications and the serial.                                           *)
(***************************************************************************)
\* C17, as stated: NotifyClientsLatest is called only in an
\* updateFromNewState call whose AddVRPs changed the installed set; a call
\* that computes the set already installed broadcasts nothing.
C17_NotifyOnlyOnAdvance == cyc.notify => lastInstall.changed

\* C17, amended: NotifyClientsLatest is called only after the AddVRPs of the
\* same call, and with notifications on it is called in every such call,
\* also when AddVRPs was given the set already installed and left the
\* serial as it was.
C17_NotifyAfterEveryInstall ==
    /\ [](cyc.notify => cyc.install)
    /\ [][(pc = "ufns_notify" /\ pc' # pc /\ cfg.sendNotifs) => cyc'.notify]_vars
    /\ [][(UpdateBegins /\ cyc'.install) =>
             /\ lastInstall'.changed <=> (server.vrps # Range(local'.vrps))
             /\ ~lastInstall'.changed => server' = server
             /\ lastInstall'.changed => server'.vrps = Range(local'.vrps)]_vars

\* A call in the loop broadcast after an AddVRPs that changed nothing, a
\* set being installed.
C17_Witness ==
    /\ phase = "loop"
    /\ pc = "ufns_lock"
    /\ cyc.notify
    /\ server.hasData
    /\ ~lastInstall.changed

(***************************************************************************)
(* A failed SLURM refresh.                                                 *)
(***************************************************************************)
\* What updateSlurm returns as an error.
SlurmErrors == {"HttpError", "HttpNotModified", "IdenticalEtag", "DecodeError"}

\* C18: when updateSlurm fails in an iteration (fetch error, not modified,
\* identical ETag, or a body that does not decode), the policy held is left
\* as it was and reports no update, the iteration goes on to updateFile, and
\* an install of that iteration processes the upstream list under the
\* policy held before.
C18_SlurmFailureKeepsPolicy ==
    /\ [][(UpdateSlurmReturns /\ cyc'.slurmErr # "none") =>
             /\ cyc'.slurmErr \in SlurmErrors
             /\ slurm' = slurm
             /\ ~cyc'.slurmUpdated
             /\ pc' = "cyc_file"]_vars
    /\ [][(phase = "loop" /\ cyc.slurmErr # "none") =>
             /\ slurm' = slurm
             /\ (pc = "cyc_file" /\ pc' # pc) =>
                   pc' = "cyc_decide" /\ (cyc'.cacheUpdated \/ cyc'.fileErr # "none")
             /\ (UpdateBegins /\ cyc'.install) =>
                   /\ lastInstall'.vrpsjson.list = UnderPolicy(slurm, lastdata.Data.list)
                   /\ server'.vrps = Range(processData(lastInstall'.vrpsjson.list).vrplist)]_vars

\* The SLURM body did not decode in an iteration that then installed a new
\* document under the policy loaded before, which filters one of its entries.
C18_Witness ==
    /\ phase = "loop"
    /\ pc = "ufns_notify"
    /\ cyc.slurmErr = "DecodeError"
    /\ cyc.cacheUpdated
    /\ slurm = SlurmDropAS1
    /\ lastdata = BodyNew.doc
    /\ E_a1 \notin Range(lastInstall.vrpsjson.list)

(***************************************************************************)
(* The counts of the metrics.                                              *)
(***************************************************************************)
\* The entries of list that are valid and of the family form.
ValidOfFamily(list, form) ==
    {i \in 1..Len(list) : ValidEntry(list[i]) /\ list[i].Prefix.form = form}

\* The identity triples of those entries.
TriplesOfFamily(list, form) ==
    {TripleOfEntry(list[i]) : i \in ValidOfFamily(list, form)}

\* UpdateMetrics is called.
MetricsSet == pc = "ufns_metrics" /\ pc' # pc

\* C19: the counts UpdateMetrics gets as "unfiltered" are, per family, the
\* number of entries of the list SLURM left that pass validation, repeated
\* ones counted each time; the counts it gets as "filtered" are the number
\* of VRPs of the family in the list given to AddVRPs, which is the number
\* of distinct identity triples among those entries; the total processData
\* returns is the sum of the two unfiltered counts; and no filtered count
\* is above the unfiltered count of its family.
C19_RawAndDedupedCounts ==
    [][MetricsSet =>
          LET list == local.vrpsjson.list
              raw4 == Cardinality(ValidOfFamily(list, "v4"))
              raw6 == Cardinality(ValidOfFamily(list, "v6"))
          IN  /\ metrics'.ipv4 = raw4
              /\ metrics'.ipv6 = raw6
              /\ processData(list).count = raw4 + raw6
              /\ metrics'.ipv4filtered = Cardinality(TriplesOfFamily(list, "v4"))
              /\ metrics'.ipv6filtered = Cardinality(TriplesOfFamily(list, "v6"))
              /\ metrics'.ipv4filtered
                    = Cardinality({i \in 1..Len(local.vrps) : local.vrps[i].Prefix.fam = "v4"})
              /\ metrics'.ipv6filtered
                    = Cardinality({i \in 1..Len(local.vrps) : local.vrps[i].Prefix.fam = "v6"})
              /\ server.vrps = Range(local.vrps)
              /\ metrics'.ipv4filtered <= metrics'.ipv4
              /\ metrics'.ipv6filtered <= metrics'.ipv6]_vars

\* 10.0.0.0/24 AS1 24 twice and 10.0.0.0/24 AS1 25 once were processed: the
\* unfiltered IPv4 count is 3 and the filtered one 2.
C19_Witness ==
    /\ pc = "listen"
    /\ metrics.set
    /\ lastdata.Data.list = <<E_a1, E_a1num, E_a1x25>>
    /\ ~slurm.loaded
    /\ metrics.ipv4 = 3
    /\ metrics.ipv4filtered = 2
    /\ metrics.ipv6 = 0

(***************************************************************************)
(* No document.                                                            *)
(***************************************************************************)
\* C20: while lastdata.Data is nil, a call of updateFromNewState returns
\* without an error and without calling AddVRPs or NotifyClientsLatest, and
\* leaves the installed set, the serial, the exported document and the
\* metrics as they were, whatever checktime says and whatever policy is
\* loaded.
C20_NoDocumentNoInstall ==
    [][(UpdateBegins /\ lastdata.Data.isnil) =>
          /\ pc' = (IF phase = "startup" THEN "listen" ELSE "cyc_end")
          /\ cyc'.stateErr = "none"
          /\ ~cyc'.install /\ ~cyc'.notify /\ ~cyc'.export
          /\ server' = server
          /\ exported' = exported
          /\ metrics' = metrics
          /\ lastInstall' = lastInstall]_vars

\* With checktime on and a policy with an assertion loaded in this
\* iteration, updateFromNewState was called and returned, no document with a
\* list having been decoded.
C20_Witness ==
    /\ phase = "loop"
    /\ pc = "cyc_end"
    /\ cyc.ran
    /\ cfg.checktime
    /\ lastdata.Data.isnil
    /\ slurm = SlurmDropAS1
    /\ Len(slurm.assertions) > 0
    /\ cyc.stateErr = "none"
    /\ ~server.hasData

(***************************************************************************)
(* The order of the startup.                                               *)
(***************************************************************************)
\* run() has not yet returned from its first updateFile, updateSlurm and
\* updateFromNewState calls.
StartupCallsPending ==
    \/ pc \in {"init_file", "init_slurm", "init_state"}
    \/ phase = "startup" /\ pc \in UpdatePcs

\* C21: the listeners are launched only after run()'s first updateFile,
\* updateSlurm (when a SLURM file is configured) and updateFromNewState
\* calls have returned, with or without an error, so no client is accepted
\* before that; and routineUpdate is entered only after the listeners were
\* launched.
C21_ListenersAfterStartup ==
    /\ [](listening => ~StartupCallsPending)
    /\ [](clients > 0 => listening)
    /\ [](phase = "loop" => listening)
    /\ [][(listening' /\ ~listening) =>
             /\ pc = "listen" /\ phase = "startup"
             /\ cyc.cacheUpdated \/ cyc.fileErr # "none"
             /\ cfg.slurm => SlurmFetched(cyc)
             /\ cyc.ran]_vars
    /\ [][(phase' = "loop" /\ phase # "loop") => listening]_vars

\* A client is accepted before routineUpdate is entered, after a startup
\* whose updateFromNewState call returned an error.
C21_Witness ==
    /\ clients > 0
    /\ phase = "startup"
    /\ pc = "enter_loop"
    /\ cyc.ran
    /\ cyc.stateErr # "none"
    /\ ~server.hasData

=============================================================================
